---- MODULE Spec2Model ----
(***************************************************************************)
(* Verification orchestration engine of TrustLayer: the per-provider rate  *)
(* limiter (SimpleQueue), the retry executor (RateLimiter.executeWithRetry)*)
(* the per-claim pipeline (verifyClaim: entity extraction, evidence,       *)
(* verdict cascade, enforcement) and analyze.                              *)
(*                                                                         *)
(* Four specifications share the module, each driving its own group of     *)
(* variables and leaving the others at their initial value:                *)
(*   SpecLimiter  SimpleQueue.add under concurrent callers and a clock     *)
(*   SpecRetry    concurrent executeWithRetry calls on one provider        *)
(*   Spec         analyze: claim extraction, the per-claim pipelines       *)
(*   SpecEnforce  enforceStrictVerdict on every raw verdict and claim      *)
(***************************************************************************)
EXTENDS Integers, Sequences, FiniteSets, Bags, TLC

VARIABLES
  \* ---- SimpleQueue (one provider's queue) and the clock
  qprov,          \* the provider whose queue is exercised
  now,            \* Date.now(), in ms
  requestTimes,   \* SimpleQueue.requestTimes
  sleepers,       \* bag of setTimeout deadlines of callers waiting inside add
  admitLog,       \* every admission time so far (the times pushed), in order
  ncalls,         \* number of add calls made so far
  \* ---- RateLimiter.executeWithRetry (concurrent calls on one provider)
  rprov,          \* the provider the calls are made on
  calls,          \* the locals of each executeWithRetry call
  stats,          \* RateLimiter.stats
  failureEvents,  \* logger.providerFailure events emitted, per provider
  \* ---- analyze
  run,            \* the analyze call: where it is, its text, claims, outcome
  pipes,          \* the verifyClaim call of each claim
  db,             \* the stored VerificationResult documents
  \* ---- enforceStrictVerdict, called on its own
  enforceCall,    \* its arguments and, once it has returned, its result
  \* ---- calculateTrustScore and analyze's summary, called on their own
  scoreCall,      \* the claims given and what is computed from them
  \* ---- getEvidence
  evidenceCall,   \* the last getEvidence call: its claimId and what it gave
  \* ---- the evaluation of the module rate-limiter.service
  loader          \* PQueue, the dynamic import, the queues of the singleton

limiterVars == <<qprov, now, requestTimes, sleepers, admitLog, ncalls>>
retryVars == <<rprov, calls, stats, failureEvents>>

analyzeVars == <<run, pipes, db>>

callVars == <<enforceCall, scoreCall, evidenceCall>>

vars == <<limiterVars, retryVars, analyzeVars, callVars, loader>>

Providers == {"gemini", "groq", "openrouter"}

\* ------------------------------------------------------------------------
\* Strings: a string is the sequence of its characters
\* ------------------------------------------------------------------------

UpperLetters == <<"A", "B", "C", "D", "E", "F", "G", "H", "I", "J", "K", "L", "M", "N", "O", "P", "Q", "R", "S", "T", "U", "V", "W", "X", "Y", "Z">>
LowerLetters == <<"a", "b", "c", "d", "e", "f", "g", "h", "i", "j", "k", "l", "m", "n", "o", "p", "q", "r", "s", "t", "u", "v", "w", "x", "y", "z">>

\* String.prototype.toLowerCase, on the ASCII letters
LowerChar(ch) ==
  IF \E i \in 1..Len(UpperLetters) : UpperLetters[i] = ch
  THEN LowerLetters[CHOOSE i \in 1..Len(UpperLetters) : UpperLetters[i] = ch]
  ELSE ch
ToLowerCase(s) == [i \in 1..Len(s) |-> LowerChar(s[i])]

\* String.prototype.toUpperCase of one character
UpperChar(ch) ==
  IF \E i \in 1..Len(LowerLetters) : LowerLetters[i] = ch
  THEN UpperLetters[CHOOSE i \in 1..Len(LowerLetters) : LowerLetters[i] = ch]
  ELSE ch

IsLetter(ch) ==
  \E i \in 1..Len(UpperLetters) : UpperLetters[i] = ch \/ LowerLetters[i] = ch

\* String.prototype.includes
Includes(s, w) ==
  \E i \in 1..(Len(s) - Len(w) + 1) : SubSeq(s, i, i + Len(w) - 1) = w

\* String.prototype.split on a one-character separator
RECURSIVE SplitFrom(_, _, _, _)
SplitFrom(s, sep, i, cur) ==
  IF i > Len(s) THEN <<cur>>
  ELSE IF s[i] = sep THEN <<cur>> \o SplitFrom(s, sep, i + 1, <<>>)
  ELSE SplitFrom(s, sep, i + 1, Append(cur, s[i]))
Split(s, sep) == SplitFrom(s, sep, 1, <<>>)

\* String.prototype.trim (blanks only)
RECURSIVE TrimLeft(_)
TrimLeft(s) == IF s # <<>> /\ Head(s) = " " THEN TrimLeft(Tail(s)) ELSE s
RECURSIVE TrimRight(_)
TrimRight(s) ==
  IF s # <<>> /\ s[Len(s)] = " " THEN TrimRight(SubSeq(s, 1, Len(s) - 1)) ELSE s
Trim(s) == TrimRight(TrimLeft(s))

\* Array.prototype.slice(0, n) and String.prototype.slice(0, n)
SliceTo(s, n) == SubSeq(s, 1, IF Len(s) < n THEN Len(s) ELSE n)

\* the input documents
\* "Hi. Ok."
DocNoClaim == <<"H", "i", ".", " ", "O", "k", ".">>
\* "All cats are grey."
DocOneClaim == <<"A", "l", "l", " ", "c", "a", "t", "s", " ", "a", "r", "e", " ", "g", "r", "e", "y", ".">>
\* "Rome is in Italy."
DocPlainClaim == <<"R", "o", "m", "e", " ", "i", "s", " ", "i", "n", " ", "I", "t", "a", "l", "y", ".">>
\* "A tall man won."
DocHiddenWord == <<"A", " ", "t", "a", "l", "l", " ", "m", "a", "n", " ", "w", "o", "n", ".">>
\* the documents analyze is called with
Documents == {DocNoClaim, DocOneClaim, DocPlainClaim}
\* "All cats are grey. Rome is in Italy.": two claims
DocTwoClaims == DocOneClaim \o <<" ">> \o DocPlainClaim

\* extractClaims' fallback splitter:
\* text.split(".").map(s => s.trim()).filter(s => s.length > 10)
SentenceSplit(text) ==
  LET parts == Split(text, ".")
      trimmed == [i \in 1..Len(parts) |-> Trim(parts[i])]
  IN SelectSeq(trimmed, LAMBDA s: Len(s) > 10)

\* const ABSOLUTE_CLAIM_WORDS
ABSOLUTE_CLAIM_WORDS ==
  { <<"w", "i", "d", "e", "l", "y">>,
    <<"a", "l", "l">>,
    <<"e", "v", "e", "r", "y">>,
    <<"a", "l", "w", "a", "y", "s">>,
    <<"n", "e", "v", "e", "r">>,
    <<"o", "n", "l", "y">>,
    <<"f", "u", "l", "l", "y">>,
    <<"c", "o", "m", "p", "l", "e", "t", "e", "l", "y">>,
    <<"e", "n", "t", "i", "r", "e", "l", "y">>,
    <<"o", "f", "f", "i", "c", "i", "a", "l", "l", "y">>,
    <<"d", "e", "p", "l", "o", "y", "e", "d">>,
    <<"l", "a", "u", "n", "c", "h", "e", "d">>,
    <<"r", "e", "l", "e", "a", "s", "e", "d">>,
    <<"i", "m", "p", "l", "e", "m", "e", "n", "t", "e", "d">>,
    <<"e", "s", "t", "a", "b", "l", "i", "s", "h", "e", "d">>,
    <<"c", "r", "e", "a", "t", "e", "d">>,
    <<"f", "o", "u", "n", "d", "e", "d">>,
    <<"i", "n", "v", "e", "n", "t", "e", "d">>,
    <<"d", "i", "s", "c", "o", "v", "e", "r", "e", "d">>,
    <<"p", "r", "o", "v", "e", "n">>,
    <<"c", "o", "n", "f", "i", "r", "m", "e", "d">>,
    <<"g", "u", "a", "r", "a", "n", "t", "e", "e", "d">>,
    <<"c", "e", "r", "t", "a", "i", "n">>,
    <<"d", "e", "f", "i", "n", "i", "t", "e", "l", "y">>,
    <<"e", "x", "c", "l", "u", "s", "i", "v", "e", "l", "y">>,
    <<"u", "n", "i", "v", "e", "r", "s", "a", "l", "l", "y">> }

\* isAbsoluteClaim
isAbsoluteClaim(claim) ==
  LET lowerClaim == ToLowerCase(claim) IN
    \E word \in ABSOLUTE_CLAIM_WORDS : Includes(lowerClaim, word)

\* the stopwords of extractClaimAnalysisFallback
stopwords ==
  { <<"t", "h", "e">>,
    <<"a">>,
    <<"a", "n">>,
    <<"h", "i", "s">>,
    <<"h", "e", "r">>,
    <<"i", "t", "s">>,
    <<"t", "h", "e", "i", "r">>,
    <<"h", "e">>,
    <<"s", "h", "e">>,
    <<"i", "t">>,
    <<"t", "h", "e", "y">>,
    <<"t", "h", "i", "s">>,
    <<"t", "h", "a", "t">>,
    <<"t", "h", "e", "s", "e">>,
    <<"t", "h", "o", "s", "e">>,
    <<"i", "s">>,
    <<"a", "r", "e">>,
    <<"w", "a", "s">>,
    <<"w", "e", "r", "e">>,
    <<"b", "e">>,
    <<"b", "e", "e", "n">>,
    <<"h", "a", "v", "e">>,
    <<"h", "a", "s">>,
    <<"h", "a", "d">>,
    <<"d", "o">>,
    <<"d", "o", "e", "s">>,
    <<"d", "i", "d">>,
    <<"w", "i", "l", "l">>,
    <<"w", "o", "u", "l", "d">>,
    <<"c", "o", "u", "l", "d">>,
    <<"s", "h", "o", "u", "l", "d">>,
    <<"h", "o", "w", "e", "v", "e", "r">>,
    <<"a", "l", "t", "h", "o", "u", "g", "h">>,
    <<"b", "e", "c", "a", "u", "s", "e">>,
    <<"s", "i", "n", "c", "e">>,
    <<"w", "h", "i", "l", "e">>,
    <<"w", "h", "e", "n">>,
    <<"w", "h", "e", "r", "e">>,
    <<"w", "h", "i", "c", "h">>,
    <<"w", "h", "o">>,
    <<"w", "h", "o", "m">>,
    <<"w", "h", "o", "s", "e">>,
    <<"w", "h", "a", "t">>,
    <<"h", "o", "w">>,
    <<"a", "n", "d">>,
    <<"o", "r">>,
    <<"b", "u", "t">>,
    <<"i", "f">>,
    <<"t", "h", "e", "n">>,
    <<"f", "o", "r">>,
    <<"w", "i", "t", "h">>,
    <<"f", "r", "o", "m">>,
    <<"t", "o">>,
    <<"o", "f">>,
    <<"i", "n">>,
    <<"o", "n">>,
    <<"a", "t">>,
    <<"b", "y">>,
    <<"a", "s">>,
    <<"a", "l", "s", "o">>,
    <<"f", "i", "r", "s", "t">>,
    <<"s", "e", "c", "o", "n", "d">>,
    <<"t", "h", "i", "r", "d">>,
    <<"n", "e", "w">>,
    <<"o", "l", "d">>,
    <<"m", "a", "n", "y">>,
    <<"s", "o", "m", "e">>,
    <<"a", "l", "l">>,
    <<"m", "o", "s", "t">>,
    <<"a", "c", "c", "o", "r", "d", "i", "n", "g">>,
    <<"s", "t", "a", "t", "e", "d">>,
    <<"c", "l", "a", "i", "m", "e", "d">>,
    <<"s", "a", "i", "d">>,
    <<"r", "e", "p", "o", "r", "t", "e", "d">>,
    <<"d", "u", "r", "i", "n", "g">>,
    <<"r", "e", "c", "e", "n", "t">> }

\* word.replace(/[^a-zA-Z]/g, "")
CleanWord(word) == SelectSeq(word, IsLetter)

\* the test of extractClaimAnalysisFallback's loop: a capitalised word of
\* more than two letters that is no stopword
IsProperWord(cleanWord) ==
  /\ cleanWord # <<>>
  /\ cleanWord[1] = UpperChar(cleanWord[1])
  /\ Len(cleanWord) > 2
  /\ ToLowerCase(cleanWord) \notin stopwords

\* the loop over the words: runs of proper words are joined by a blank
RECURSIVE ProperNouns(_, _, _)
ProperNouns(words, i, currentNoun) ==
  IF i > Len(words)
  THEN IF currentNoun # <<>> /\ Len(currentNoun) > 2 THEN <<currentNoun>> ELSE <<>>
  ELSE LET cleanWord == CleanWord(words[i]) IN
    IF IsProperWord(cleanWord)
    THEN ProperNouns(words, i + 1,
           (IF currentNoun # <<>> THEN Append(currentNoun, " ") ELSE <<>>)
             \o cleanWord)
    ELSE IF currentNoun # <<>>
    THEN (IF Len(currentNoun) > 2 THEN <<currentNoun>> ELSE <<>>)
           \o ProperNouns(words, i + 1, <<>>)
    ELSE ProperNouns(words, i + 1, <<>>)

\* extractClaimAnalysisFallback
extractClaimAnalysisFallback(claim) ==
  [entities |-> SliceTo(ProperNouns(Split(claim, " "), 1, <<>>), 4),
   intent |-> "general_fact",
   searchQuery |-> SliceTo(claim, 100)]

\* ------------------------------------------------------------------------
\* Verdict engine (getLLMVerdict, enforceStrictVerdict) and verifyClaim's
\* final mapping
\* ------------------------------------------------------------------------

\* A JSON number n is <<n>>, an absent field (undefined) is <<>>.
Num(n) == <<n>>
Undefined == <<>>
\* x < k and x > k of JavaScript: false when x is undefined
Lt(x, k) == x # Undefined /\ x[1] < k
Gt(x, k) == x # Undefined /\ x[1] > k

\* A JSON string is <<"str", piece, ...>>, an absent reason is <<"undefined">>.
Str(piece) == <<"str", piece>>
NoString == <<"undefined">>
IsString(r) == r[1] = "str"
\* r + suffix: string concatenation, undefined prints as "undefined"
Concat(r, suffix) ==
  IF IsString(r) THEN Append(r, suffix) ELSE <<"str", "undefined", suffix>>

\* the status strings a provider's reply may carry
RawStatuses == {"verified", "partially_verified", "hallucinated", "uncertain"}
\* the confidence values a provider's reply may carry
RawConfidences == {Num(-5), Num(80), Num(89), Num(90), Num(150), Undefined}
RawReasons == {Str("reason"), NoString}

\* Rule 4 of enforceStrictVerdict: parsed.confidence < 85 || > 100 => 85
ClampConfidence(parsed) ==
  IF Lt(parsed.confidence, 85) \/ Gt(parsed.confidence, 100)
  THEN [parsed EXCEPT !.confidence = Num(85)]
  ELSE parsed

\* enforceStrictVerdict without its rule 1
enforceNoPartialRule(parsed, claim) ==
  IF parsed.status = "verified" /\ Lt(parsed.confidence, 85)
  THEN [status |-> "hallucinated", confidence |-> Num(85),
        reason |-> Concat(parsed.reason, " [Below confidence threshold]")]
  ELSE ClampConfidence(parsed)
\* enforceStrictVerdict without its rules 2 and 3
enforceNoFloor(parsed, claim) ==
  IF parsed.status = "partially_verified"
  THEN [status |-> "hallucinated", confidence |-> Num(85),
        reason |-> Concat(parsed.reason, " [Partial verification = unverified]")]
  ELSE ClampConfidence(parsed)
\* enforceStrictVerdict, rules 1 to 4
enforceStrictVerdict(parsed, claim) ==
  IF parsed.status = "partially_verified"
  THEN [status |-> "hallucinated", confidence |-> Num(85),
        reason |-> Concat(parsed.reason, " [Partial verification = unverified]")]
  ELSE IF parsed.status = "verified" /\ Lt(parsed.confidence, 85)
  THEN [status |-> "hallucinated", confidence |-> Num(85),
        reason |-> Concat(parsed.reason, " [Below confidence threshold]")]
  ELSE IF parsed.status = "verified" /\ Lt(parsed.confidence, 90)
            /\ isAbsoluteClaim(claim)
  THEN [status |-> "hallucinated", confidence |-> Num(85),
        reason |-> Concat(parsed.reason,
                          " [Absolute claim requires 90%+ confidence]")]
  ELSE ClampConfidence(parsed)

\* the raw verdicts the providers give in a run of analyze
ReplyVerdicts ==
  {[status |-> "verified", confidence |-> Num(90), reason |-> Str("reason")],
   [status |-> "verified", confidence |-> Num(80), reason |-> Str("reason")],
   [status |-> "verified", confidence |-> Num(90), reason |-> NoString],
   [status |-> "partially_verified", confidence |-> Num(90), reason |-> Str("reason")],
   [status |-> "hallucinated", confidence |-> Num(90), reason |-> Str("reason")],
   [status |-> "uncertain", confidence |-> Num(90), reason |-> Str("reason")],
   [status |-> "hallucinated", confidence |-> Undefined, reason |-> Str("reason")]}

\* What one provider's turn of the verdict cascade can come to:
\*   error     executeWithRetry threw (every attempt failed)
\*   short     the reply is empty or shorter than 20 characters
\*   garbage   JSON.parse throws
\*   json      a JSON object with these status, confidence, reason
VerdictReplies ==
  {[kind |-> k, status |-> "uncertain", confidence |-> Undefined,
    reason |-> NoString] : k \in {"error", "short", "garbage"}}
  \cup
  {[kind |-> "json", status |-> v.status, confidence |-> v.confidence,
    reason |-> v.reason] : v \in ReplyVerdicts}

\* one try block of getLLMVerdict after executeWithRetry settled: the
\* length test, JSON.parse, enforceStrictVerdict, enforced.reason.slice;
\* site is where it fails, "none" if it returns the enforced verdict
VerdictTurn(reply, claim) ==
  LET enforced ==
        enforceStrictVerdict([status |-> reply.status,
                              confidence |-> reply.confidence,
                              reason |-> reply.reason], claim)
  IN CASE reply.kind = "error" -> [site |-> "provider call", verdict |-> enforced]
       [] reply.kind = "short" -> [site |-> "length test", verdict |-> enforced]
       [] reply.kind = "garbage" -> [site |-> "JSON.parse", verdict |-> enforced]
       [] ~IsString(enforced.reason) -> [site |-> "reason.slice", verdict |-> enforced]
       [] OTHER -> [site |-> "none", verdict |-> enforced]

\* a default verdict that would report the claim verified
DefaultVerdictVerified ==
  [status |-> "verified", confidence |-> Num(85),
   reason |-> Str("AI verification unavailable. Claim cannot be verified without AI reasoning.")]
\* the verdict returned when the last provider failed too
DefaultVerdict ==
  [status |-> "hallucinated", confidence |-> Num(85),
   reason |-> Str("AI verification unavailable. Claim cannot be verified without AI reasoning.")]

\* the verdict cascade in the order of the extraction cascade
VerdictOrderGeminiFirst == <<"gemini", "groq", "openrouter">>
\* the order in which getLLMVerdict and extractClaimAnalysis try providers
VerdictOrder == <<"groq", "gemini", "openrouter">>
EntityOrder == <<"gemini", "groq", "openrouter">>

\* verifyClaim, step 5: the LLM status mapped to the final status
FinalStatus(status) ==
  IF status = "verified" THEN "verified"
  ELSE IF status = "hallucinated" THEN "hallucinated"
  ELSE "uncertain"

\* the evidence array of verifyClaim: one item per Wikipedia source found,
\* then the top two search results; evidence[0].verdict follows the status;
\* an empty array is returned as the one item of the engine itself
Min(a, b) == IF a < b THEN a ELSE b
EvidenceList(wikiHits, webCount, finalStatus) ==
  LET items == [i \in 1..wikiHits |->
                  [source |-> <<"Wikipedia", i>>, verdict |-> "Source retrieved"]]
               \o [i \in 1..Min(webCount, 2) |->
                  [source |-> <<"web", i>>, verdict |-> "Web source"]]
      first == IF finalStatus = "verified" THEN "Supports claim"
               ELSE IF finalStatus = "hallucinated" THEN "Contradicts claim"
               ELSE "Related content"
  IN IF Len(items) > 0
     THEN [items EXCEPT ![1].verdict = first]
     ELSE <<[source |-> <<"AI Verification Engine", 0>>,
             verdict |-> "Analysis complete"]>>

\* the value verifyClaim returns
VerifyResult(llmVerdict, wikiHits, webCount) ==
  LET finalStatus == FinalStatus(llmVerdict.status) IN
    [status |-> finalStatus,
     confidence |-> llmVerdict.confidence,
     explanation |-> llmVerdict.reason,
     evidence |-> EvidenceList(wikiHits, webCount, finalStatus)]

\* ------------------------------------------------------------------------
\* Trust score (calculateTrustScore) and analyze's summary
\* ------------------------------------------------------------------------

CountStatus(results, s) ==
  Cardinality({i \in 1..Len(results) : results[i].status = s})

\* ------------------------------------------------------------------------
\* JavaScript numbers (IEEE 754 binary64), as far as calculateTrustScore
\* needs them: magnitudes below 2^8 that are multiples of 2^-64, written
\* as their Width binary digits, least significant first (digit i weighs
\* 2^(i - 1 - FracBits)); every operation is computed exactly and then
\* rounded to 53 significant digits, ties to even
\* ------------------------------------------------------------------------
FracBits == 64
Width == 72
Significand == 53

Zeros(n) == [i \in 1..n |-> 0]

\* the number n / 2^sh for an integer 0 <= n < 2^31
Fixed(n, sh) ==
  [i \in 1..Width |->
     LET j == i - 1 - FracBits + sh IN
       IF j >= 0 /\ j <= 30 THEN (n \div 2^j) % 2 ELSE 0]

RECURSIVE AddFrom(_, _, _, _)
AddFrom(a, b, done, carry) ==
  IF Len(done) = Width THEN done
  ELSE LET d == a[Len(done) + 1] + b[Len(done) + 1] + carry IN
         AddFrom(a, b, Append(done, d % 2), d \div 2)

BigAdd(a, b) == AddFrom(a, b, <<>>, 0)

\* a - b for a >= b
RECURSIVE SubFrom(_, _, _, _)
SubFrom(a, b, done, borrow) ==
  IF Len(done) = Width THEN done
  ELSE LET d == a[Len(done) + 1] - b[Len(done) + 1] - borrow IN
         SubFrom(a, b, Append(done, (d + 2) % 2), IF d < 0 THEN 1 ELSE 0)

BigSub(a, b) == SubFrom(a, b, <<>>, 0)

BigLess(a, b) ==
  \E i \in 1..Width :
    /\ a[i] < b[i]
    /\ \A j \in (i+1)..Width : a[j] = b[j]

\* a * k for a small integer k >= 0
RECURSIVE MulFrom(_, _, _, _)
MulFrom(a, k, done, carry) ==
  IF Len(done) = Width THEN done
  ELSE LET d == a[Len(done) + 1] * k + carry IN
         MulFrom(a, k, Append(done, d % 2), d \div 2)

BigMul(a, k) == MulFrom(a, k, <<>>, 0)

\* a / d for a small integer d > 0: the quotient cut off after the last
\* digit, and whether anything was cut off
RECURSIVE DivFrom(_, _, _, _)
DivFrom(a, d, done, rem) ==
  IF Len(done) = Width THEN [quot |-> done, inexact |-> rem # 0]
  ELSE LET n == 2 * rem + a[Width - Len(done)] IN
         DivFrom(a, d, <<n \div d>> \o done, n % d)

BigDiv(a, d) == DivFrom(a, d, <<>>, 0)

\* round to nearest, ties to even, at Significand digits; `inexact` tells
\* that the exact value lies above a by less than one last digit
RoundToDouble(a, inexact) ==
  LET ones == {i \in 1..Width : a[i] = 1} IN
    IF ones = {} THEN a
    ELSE
      LET top == CHOOSE i \in ones : \A j \in ones : j <= i
          last == top - Significand + 1 IN
        IF last <= 1 THEN a
        ELSE
          LET kept == Zeros(last - 1) \o SubSeq(a, last, Width)
              half == a[last - 1] = 1
              rest == inexact \/ \E i \in 1..(last - 2) : a[i] = 1
              up == half /\ (rest \/ a[last] = 1) IN
            IF up
            THEN BigAdd(kept, Zeros(last - 1) \o <<1>> \o Zeros(Width - last))
            ELSE kept

\* a signed number of magnitude a (zero carries no sign here)
Signed(neg, a) == [neg |-> neg /\ a # Zeros(Width), mag |-> a]

\* x + y, rounded
FloatAdd(x, y) ==
  IF x.neg = y.neg
  THEN [neg |-> x.neg, mag |-> RoundToDouble(BigAdd(x.mag, y.mag), FALSE)]
  ELSE IF BigLess(x.mag, y.mag)
  THEN [neg |-> y.neg, mag |-> RoundToDouble(BigSub(y.mag, x.mag), FALSE)]
  ELSE [neg |-> x.neg /\ x.mag # y.mag,
        mag |-> RoundToDouble(BigSub(x.mag, y.mag), FALSE)]

\* x * k, rounded, for a small integer k >= 0
FloatMul(x, k) ==
  [neg |-> x.neg, mag |-> RoundToDouble(BigMul(x.mag, k), FALSE)]

\* x / (n / 2), rounded, for a small integer n > 0
FloatDivHalves(x, n) ==
  LET q == BigDiv(BigMul(x.mag, 2), n) IN
    [neg |-> x.neg, mag |-> RoundToDouble(q.quot, q.inexact)]

\* the literal 0.3: 0x13333333333333 * 2^-54
Literal03 ==
  Signed(FALSE, [i \in 1..Width |->
     LET j == i - 1 - (FracBits - 54) IN
       IF j = 52 \/ (j >= 0 /\ j < 52 /\ j % 4 \in {0, 1}) THEN 1 ELSE 0])

\* Math.max(0, Math.min(100, x))
Clamp0To100(x) ==
  IF x.neg THEN Signed(FALSE, Zeros(Width))
  ELSE IF BigLess(Fixed(100, 0), x.mag) THEN Signed(FALSE, Fixed(100, 0))
  ELSE x

\* Math.round of a number >= 0 and below 2^8: its integer part, plus one
\* when the fraction is a half or more
MathRound(x) ==
  LET sum[i \in FracBits..(FracBits + 8)] ==
        IF i = FracBits THEN 0
        ELSE sum[i-1] + x.mag[i] * 2^(i - 1 - FracBits)
  IN sum[FracBits + 8] + x.mag[FracBits]

\* normalizedScore = ((score - minScore) / (maxScore - minScore)) * 100 with
\* score = 0 + verified * 1.0 + uncertain * 0.3 + hallucinated * -1.5,
\* maxScore = total * 1.0, minScore = total * -1.5
NormalizedScore(v, u, h, t) ==
  LET s1 == Signed(FALSE, Fixed(v, 0))
      s2 == FloatAdd(s1, FloatMul(Literal03, u))
      score == FloatAdd(s2, Signed(TRUE, Fixed(3 * h, 1)))
      minScore == Signed(TRUE, Fixed(3 * t, 1))
      aboveMin == FloatAdd(score, Signed(FALSE, minScore.mag))
  IN FloatMul(FloatDivHalves(aboveMin, 5 * t), 100)

\* Math.round(finalScore) with
\* finalScore = Math.max(0, Math.min(100, normalizedScore))
ComputedScore(v, u, h, t) ==
  MathRound(Clamp0To100(NormalizedScore(v, u, h, t)))

\* the longest list of claims given to calculateTrustScore on its own
MaxScoreClaims == 8

\* the scores of all lists of up to MaxScoreClaims claims, computed once
ScoreTable ==
  {<<c, ComputedScore(c[1], c[2], c[3], c[4])>> :
     c \in {d \in (0..MaxScoreClaims) \X (0..MaxScoreClaims)
                  \X (0..MaxScoreClaims) \X (1..MaxScoreClaims) :
              d[1] + d[2] + d[3] <= d[4]}}

RoundedScore(v, u, h, t) ==
  IF t <= MaxScoreClaims
  THEN (CHOOSE r \in ScoreTable : r[1] = <<v, u, h, t>>)[2]
  ELSE ComputedScore(v, u, h, t)

\* a label that looks at the verified and uncertain claims only
TrustLabelNoRisk(v, u, h, t) ==
  IF 10 * v >= 7 * t THEN "High Confidence"
  ELSE IF 2 * v >= t THEN "Moderate Confidence"
  ELSE IF 10 * u >= 7 * t THEN "Low Confidence - Mostly Uncertain"
  ELSE "Review Recommended"

\* a label whose risk tier depends on the number of hallucinations only
TrustLabelByCount(v, u, h, t) ==
  IF h >= 2 THEN "Review Required - Hallucinations Detected"
  ELSE IF h = 1 THEN "Caution - Hallucination Detected"
  ELSE TrustLabelNoRisk(v, u, h, t)

TrustLabel(v, u, h, t) ==
  IF h > 0
  THEN IF 2 * h >= t THEN "High Risk - Multiple Hallucinations"
       ELSE IF h >= 2 THEN "Review Required - Hallucinations Detected"
       ELSE "Caution - Hallucination Detected"
  ELSE IF 10 * v >= 7 * t THEN "High Confidence"
  ELSE IF 2 * v >= t THEN "Moderate Confidence"
  ELSE IF 10 * u >= 7 * t THEN "Low Confidence - Mostly Uncertain"
  ELSE "Review Recommended"

calculateTrustScore(results) ==
  LET v == CountStatus(results, "verified")
      u == CountStatus(results, "uncertain")
      h == CountStatus(results, "hallucinated")
      t == Len(results)
  IN IF t = 0
     THEN [score |-> 50, label |-> "No Claims", hasBreakdown |-> FALSE,
           verified |-> 0, uncertain |-> 0, hallucinated |-> 0, total |-> 0]
     ELSE [score |-> RoundedScore(v, u, h, t), label |-> TrustLabel(v, u, h, t),
           hasBreakdown |-> TRUE,
           verified |-> v, uncertain |-> u, hallucinated |-> h, total |-> t]

\* analyze: breakdown = scoreResult.breakdown || the counts by filter
Breakdown(scoreResult, results) ==
  [verified |-> CountStatus(results, "verified"),
   uncertain |-> CountStatus(results, "uncertain"),
   hallucinated |-> CountStatus(results, "hallucinated"),
   total |-> Len(results)]

\* a summary that names the total only
SummaryTotalOnly(b) ==
  [text |-> "T claims analyzed.", counts |-> <<b.total>>]

\* analyze: the summary, always one of the four overrides
Summary(b) ==
  IF b.hallucinated > 0
  THEN [text |-> "N hallucination(s) detected. V verified, U uncertain out of T claims.",
        counts |-> <<b.hallucinated, b.verified, b.uncertain, b.total>>]
  ELSE IF b.verified = b.total
  THEN [text |-> "All T claims verified against trusted sources.",
        counts |-> <<b.total>>]
  ELSE IF b.verified > 0
  THEN [text |-> "V of T claims verified. U claims need additional review.",
        counts |-> <<b.verified, b.total, b.uncertain>>]
  ELSE [text |-> "T claims analyzed. U need additional verification.",
        counts |-> <<b.total, b.uncertain>>]

\* ------------------------------------------------------------------------
\* Rate limiter: RateLimiter.constructor and SimpleQueue
\* ------------------------------------------------------------------------

\* interval: 60000 of every queue built by the constructor
Interval == 60000

\* intervalCap of each provider's queue
IntervalCap(p) ==
  CASE p = "gemini" -> 10
    [] p = "groq" -> 15
    [] p = "openrouter" -> 12

\* the clock advances in steps of TickMs, MaxTicks times at most
TickMs == 30050
MaxTicks == 3
\* add is called at most IntervalCap + MaxExtraCalls times
MaxExtraCalls == 2

\* this.requestTimes.filter(time => now - time < this.interval)
FilterRecent(times, t) == SelectSeq(times, LAMBDA x: t - x < Interval)

Max0(x) == IF x > 0 THEN x ELSE 0

\* a caller at capacity that does not wait at all
WaitTimeNone(times, t) == 0

\* waitTime of a caller that finds the queue at capacity
WaitTime(times, t) == Max0(Interval - (t - times[1]) + 100)

\* SimpleQueue.add up to its first suspension: filter, then either sleep
\* (setTimeout) or push Date.now() and call fn
QueueAdd ==
  /\ ncalls < IntervalCap(qprov) + MaxExtraCalls
  /\ ncalls' = ncalls + 1
  /\ LET kept == FilterRecent(requestTimes, now) IN
       IF Len(kept) >= IntervalCap(qprov)
       THEN /\ requestTimes' = kept
            /\ sleepers' = sleepers (+) SetToBag({now + WaitTime(kept, now)})
            /\ UNCHANGED admitLog
       ELSE /\ requestTimes' = Append(kept, now)
            /\ admitLog' = Append(admitLog, now)
            /\ UNCHANGED sleepers
  /\ UNCHANGED <<qprov, now>>
  /\ UNCHANGED <<retryVars, analyzeVars, callVars, loader>>

\* the timer of a sleeping caller fires: requestTimes.push(Date.now()); fn()
QueueWake ==
  /\ \E d \in BagToSet(sleepers) :
       /\ d <= now
       /\ sleepers' = sleepers (-) SetToBag({d})
  /\ requestTimes' = Append(requestTimes, now)
  /\ admitLog' = Append(admitLog, now)
  /\ UNCHANGED <<qprov, now, ncalls>>
  /\ UNCHANGED <<retryVars, analyzeVars, callVars, loader>>

\* time passes
Tick ==
  /\ now + TickMs <= MaxTicks * TickMs
  /\ now' = now + TickMs
  /\ UNCHANGED <<qprov, requestTimes, sleepers, admitLog, ncalls>>
  /\ UNCHANGED <<retryVars, analyzeVars, callVars, loader>>

\* ------------------------------------------------------------------------
\* Retry executor: RateLimiter.executeWithRetry
\* ------------------------------------------------------------------------

\* maxRetries: number = 3
DefaultMaxRetries == 3
\* let delay = 1000
InitialDelay == 1000

\* callers pass maxRetries in 0..MaxRetriesArg (or leave the default)
MaxRetriesArg == 3
\* number of executeWithRetry calls that may be in flight together
MaxConcurrent == 2

CallIds == 1..MaxConcurrent

NoError == "null"
\* the error fn throws on its k-th attempt (a distinct Error object per attempt)
ErrorOf(k) == <<"Error", k>>
\* error?.message?.slice(0, 100) || "Unknown error"
ErrorMsg(e) == IF e = NoError THEN "Unknown error" ELSE <<"message", e[2]>>
\* new Error(`${provider} verification failed after ${maxRetries} retries`)
ExhaustedError == <<"Error", "verification failed after retries">>

\* private stats initialiser
InitialStats ==
  [p \in Providers |->
     [successCount |-> 0, failureCount |-> 0, lastError |-> NoError,
      successRate |-> <<0, 1>>]]

\* a success rate that is never recomputed
UpdateSuccessRateStale(st) == st
\* updateSuccessRate: (successCount / total) * 100, kept as the exact
\* fraction <<numerator, denominator>>; 0 when total = 0
UpdateSuccessRate(st) ==
  LET total == st.successCount + st.failureCount IN
    [st EXCEPT !.successRate =
       IF total > 0 THEN <<st.successCount * 100, total>> ELSE <<0, 1>>]

\* stats.successCount++; this.updateSuccessRate(provider)
RecordSuccess(st) ==
  UpdateSuccessRate([st EXCEPT !.successCount = @ + 1])

\* an exhaustion that leaves failureCount alone
RecordFailureNoCount(st, msg) == [st EXCEPT !.lastError = msg]
\* stats.failureCount++; stats.lastError = errorMsg; updateSuccessRate
RecordFailure(st, msg) ==
  UpdateSuccessRate([st EXCEPT !.failureCount = @ + 1, !.lastError = msg])

\* a constant delay
NextDelayFrozen(d) == d
\* delay *= 2
NextDelay(d) == d * 2

IdleCall ==
  [pc |-> "idle", maxRetries |-> 0, attempt |-> 0, delay |-> 0, fnCalls |-> 0,
   waits |-> <<>>, lastError |-> NoError, thrown |-> NoError]

\* no call of SimpleQueue.add has been made
LimiterIdle ==
  /\ qprov = "gemini"
  /\ now = 0
  /\ requestTimes = <<>>
  /\ sleepers = EmptyBag
  /\ admitLog = <<>>
  /\ ncalls = 0

\* who a providerFailure event names: a provider, or "all"
EventSources == Providers \cup {"all"}

RetryIdle ==
  /\ rprov = "gemini"
  /\ calls = [c \in CallIds |-> IdleCall]
  /\ stats = InitialStats
  /\ failureEvents = [p \in EventSources |-> 0]

\* executeWithRetry is entered: the locals are initialised and the loop
\* condition attempt <= maxRetries is tested for attempt = 1. With no attempt
\* to make the function runs through to its end: providerFailure, throw.
Invoke(c) ==
  /\ calls[c].pc = "idle"
  /\ \E mr \in (0..MaxRetriesArg) \cup {DefaultMaxRetries} :
       IF 1 <= mr
       THEN /\ calls' = [calls EXCEPT ![c] =
                 [IdleCall EXCEPT !.pc = "attempt", !.maxRetries = mr,
                                  !.attempt = 1, !.delay = InitialDelay]]
            /\ UNCHANGED failureEvents
       ELSE /\ calls' = [calls EXCEPT ![c] =
                 [IdleCall EXCEPT !.pc = "thrown", !.maxRetries = mr,
                                  !.attempt = 1, !.delay = InitialDelay,
                                  !.thrown = ExhaustedError]]
            /\ failureEvents' = [failureEvents EXCEPT ![rprov] = @ + 1]
  /\ UNCHANGED <<rprov, stats>>
  /\ UNCHANGED <<limiterVars, analyzeVars, callVars, loader>>

\* await queue.add(fn) resolves: success is recorded and the result returned
AttemptSucceeds(c) ==
  /\ calls[c].pc = "attempt"
  /\ calls' = [calls EXCEPT ![c].pc = "returned", ![c].fnCalls = @ + 1]
  /\ stats' = [stats EXCEPT ![rprov] = RecordSuccess(@)]
  /\ UNCHANGED <<rprov, failureEvents>>
  /\ UNCHANGED <<limiterVars, analyzeVars, callVars, loader>>

\* await queue.add(fn) rejects: the catch block. On the last attempt the
\* failure is recorded, the loop is left, the failure event is emitted and
\* lastError is thrown; otherwise the call sleeps for delay.
AttemptFails(c) ==
  /\ calls[c].pc = "attempt"
  /\ LET k == calls[c].attempt
         e == ErrorOf(k) IN
       IF k = calls[c].maxRetries
       THEN /\ calls' = [calls EXCEPT ![c].pc = "thrown", ![c].fnCalls = @ + 1,
                                      ![c].lastError = e, ![c].thrown = e]
            /\ stats' = [stats EXCEPT ![rprov] = RecordFailure(@, ErrorMsg(e))]
            /\ failureEvents' = [failureEvents EXCEPT ![rprov] = @ + 1]
       ELSE /\ calls' = [calls EXCEPT ![c].pc = "backoff", ![c].fnCalls = @ + 1,
                                      ![c].lastError = e]
            /\ UNCHANGED <<stats, failureEvents>>
  /\ UNCHANGED rprov
  /\ UNCHANGED <<limiterVars, analyzeVars, callVars, loader>>

\* the backoff timer fires: delay *= 2, attempt++, next iteration
BackoffElapses(c) ==
  /\ calls[c].pc = "backoff"
  /\ calls' = [calls EXCEPT ![c].pc = "attempt",
                            ![c].waits = Append(@, calls[c].delay),
                            ![c].delay = NextDelay(@),
                            ![c].attempt = @ + 1]
  /\ UNCHANGED <<rprov, stats, failureEvents>>
  /\ UNCHANGED <<limiterVars, analyzeVars, callVars, loader>>

\* ------------------------------------------------------------------------
\* The per-claim pipeline: verifyClaim (extractClaimAnalysis, the Wikipedia
\* lookups, searchWeb, getLLMVerdict). A call of executeWithRetry is one
\* step here, taken when the call settles: it either returned the
\* provider's reply (success recorded) or threw after its last attempt
\* (failure recorded, failure event emitted); SpecRetry has its attempts.
\* ------------------------------------------------------------------------

\* no try block at all
CaughtNever(site) == FALSE
\* The places where an exception can be raised, and whether a try block of
\* the raising function encloses them.
Caught(site) ==
  site \in {"provider call",   \* the awaited call of the provider
            "length test",     \* throw new Error("Empty response ...")
            "JSON.parse",
            "reason.slice"}    \* enforced.reason.slice(0, 80) in the log line
\* not enclosed: claims.map (analyze), entity.replace (getWikipediaSummary),
\* VerificationResult.create (analyze)

\* a JSON value that is no string (null, a number) among the entities
JsonNull == <<"null">>
IsStringValue(e) == e # JsonNull

LlmEntity == <<"R", "o", "m", "e">>
\* the claim type a provider's reply names
LlmIntent == "geographic_fact"
\* the entities arrays a provider's reply may carry
LlmEntityLists == {<<>>, <<LlmEntity>>, <<JsonNull>>}

\* What one provider's turn of extractClaimAnalysis can come to:
\*   error     executeWithRetry threw
\*   garbage   JSON.parse throws
\*   json      a JSON object with this entities array
AnalysisReplies ==
  {[kind |-> k, entities |-> <<>>] : k \in {"error", "garbage"}}
  \cup [kind : {"json"}, entities : LlmEntityLists]

\* where a reply makes its try block fail, "none" if it does not
AnalysisFailure(reply) ==
  CASE reply.kind = "error" -> "provider call"
    [] reply.kind = "garbage" -> "JSON.parse"
    [] OTHER -> "none"

\* the numbers of organic results a web search may return (0: no key, no
\* results, or the request failed)
SearchCounts == {0, 3}

NoResult ==
  [status |-> "none", confidence |-> Undefined, explanation |-> NoString,
   evidence |-> <<>>]

\* a pipeline started by claims.map: verifyClaim runs up to the first
\* executeWithRetry call of extractClaimAnalysis
StartedPipe ==
  [pc |-> "entity", idx |-> 1, entities |-> <<>>, intent |-> "none",
   wikiHits |-> 0, webCount |-> 0, result |-> NoResult, error |-> "none"]

\* the promise of verifyClaim rejects with the error raised at `site`
RejectPipe(pipe, site) ==
  [StartedPipe EXCEPT !.pc = "rejected", !.error = site]

\* executeWithRetry settled for provider p: its effect on stats and events.
\* The error of the last of the DefaultMaxRetries attempts is the one kept.
SettleStats(st, p, threw) ==
  [st EXCEPT ![p] =
     IF threw THEN RecordFailure(@, ErrorMsg(ErrorOf(DefaultMaxRetries)))
     ELSE RecordSuccess(@)]
SettleEvents(ev, p, threw) ==
  IF threw THEN [ev EXCEPT ![p] = @ + 1] ELSE ev

\* verifyClaim after extractClaimAnalysis returned: the loop over
\* claimAnalysis.entities.slice(0, 3) starts its first lookup, or, with no
\* entity, searchWeb starts; getWikipediaSummary raises on a non-string
\* entity (entity.replace is outside its try blocks)
BeginEvidence(pipe, analysis) ==
  LET ents == SliceTo(analysis.entities, 3) IN
    IF ents = <<>>
    THEN [pipe EXCEPT !.pc = "search", !.idx = 1, !.intent = analysis.intent]
    ELSE IF ~IsStringValue(ents[1]) /\ ~Caught("entity.replace")
    THEN RejectPipe(pipe, "entity.replace")
    ELSE [pipe EXCEPT !.pc = "wiki", !.idx = 1, !.entities = ents,
                      !.intent = analysis.intent]

\* one try block of extractClaimAnalysis settles; on failure the next
\* provider is tried, after the last one the fallback extraction is used
EntitySettleOf(c, replies) ==
  /\ pipes[c].pc = "entity"
  /\ LET i == pipes[c].idx
         p == EntityOrder[i] IN
     \E reply \in replies :
       LET site == AnalysisFailure(reply) IN
         /\ stats' = SettleStats(stats, p, reply.kind = "error")
         /\ failureEvents' = SettleEvents(failureEvents, p, reply.kind = "error")
         /\ pipes' = [pipes EXCEPT ![c] =
              IF site = "none"
              THEN BeginEvidence(@, [entities |-> reply.entities,
                                     intent |-> LlmIntent])
              ELSE IF ~Caught(site) THEN RejectPipe(@, site)
              ELSE IF i < Len(EntityOrder) THEN [@ EXCEPT !.idx = i + 1]
              ELSE BeginEvidence(@, extractClaimAnalysisFallback(run.claims[c]))]
  /\ UNCHANGED <<run, db, limiterVars, rprov, calls, callVars, loader>>

EntitySettle(c) == EntitySettleOf(c, AnalysisReplies)

\* getWikipediaSummary settles for entity idx: a summary or null; the loop
\* goes on with the next entity, or searchWeb starts
WikiSettle(c) ==
  /\ pipes[c].pc = "wiki"
  /\ LET i == pipes[c].idx
         ents == pipes[c].entities IN
     \E found \in BOOLEAN :
       pipes' = [pipes EXCEPT ![c] =
         LET hits == @.wikiHits + (IF found THEN 1 ELSE 0) IN
           IF i < Len(ents)
           THEN IF ~IsStringValue(ents[i + 1]) /\ ~Caught("entity.replace")
                THEN RejectPipe(@, "entity.replace")
                ELSE [@ EXCEPT !.idx = i + 1, !.wikiHits = hits]
           ELSE [@ EXCEPT !.pc = "search", !.idx = 1, !.entities = <<>>,
                          !.wikiHits = hits]]
  /\ UNCHANGED <<run, db, stats, failureEvents, limiterVars, rprov, calls, callVars, loader>>

\* searchWeb settles; getLLMVerdict builds its prompt (the last use of the
\* analysis) and calls the first provider of its cascade
SearchSettle(c) ==
  /\ pipes[c].pc = "search"
  /\ \E n \in SearchCounts :
       pipes' = [pipes EXCEPT ![c] =
                   [@ EXCEPT !.pc = "verdict", !.idx = 1, !.webCount = n,
                             !.intent = "none"]]
  /\ UNCHANGED <<run, db, stats, failureEvents, limiterVars, rprov, calls, callVars, loader>>

\* verifyClaim's last part, from the verdict to the returned value; the
\* locals of the call are gone
FinishPipe(pipe, llmVerdict) ==
  [StartedPipe EXCEPT !.pc = "done",
     !.result = VerifyResult(llmVerdict, pipe.wikiHits, pipe.webCount)]

\* one try block of getLLMVerdict settles; on failure the next provider is
\* tried; after the last one the default verdict is returned and the
\* failure of all providers is logged
VerdictSettleOf(c, replies) ==
  /\ pipes[c].pc = "verdict"
  /\ LET i == pipes[c].idx
         p == VerdictOrder[i] IN
     \E reply \in replies :
       LET turn == VerdictTurn(reply, run.claims[c])
           threw == reply.kind = "error"
           failed == turn.site # "none"
           exhausted == failed /\ Caught(turn.site) /\ i = Len(VerdictOrder) IN
         /\ stats' = SettleStats(stats, p, threw)
         /\ failureEvents' =
              [SettleEvents(failureEvents, p, threw) EXCEPT
                 !["all"] = IF exhausted THEN @ + 1 ELSE @]
         /\ pipes' = [pipes EXCEPT ![c] =
              IF ~failed THEN FinishPipe(@, turn.verdict)
              ELSE IF ~Caught(turn.site) THEN RejectPipe(@, turn.site)
              ELSE IF exhausted THEN FinishPipe(@, DefaultVerdict)
              ELSE [@ EXCEPT !.idx = i + 1]]
  /\ UNCHANGED <<run, db, limiterVars, rprov, calls, callVars, loader>>

VerdictSettle(c) == VerdictSettleOf(c, VerdictReplies)

\* ------------------------------------------------------------------------
\* analyze and extractClaims
\* ------------------------------------------------------------------------

\* What one provider's turn of extractClaims can come to (the providers are
\* called directly here):
\*   error     the call threw
\*   garbage   JSON.parse throws (or the value is null: claims.length)
\*   array     a JSON array of these claims
\*   object    a JSON value that parses and is no array, {} say
ExtractReplies(text) ==
  {[kind |-> k, claims |-> <<>>] : k \in {"error", "garbage", "object"}}
  \cup {[kind |-> "array", claims |-> SliceTo(SentenceSplit(text), n)] :
          n \in 0..Len(SentenceSplit(text))}

ExtractFailure(reply) ==
  CASE reply.kind = "error" -> "provider call"
    [] reply.kind = "garbage" -> "JSON.parse"
    [] OTHER -> "none"

ExtractOrder == <<"gemini", "groq", "openrouter">>

NoOutcome ==
  [score |-> 0, label |-> "none", claims |-> <<>>, verifiedText |-> <<>>,
   summary |-> [text |-> "none", counts |-> <<>>],
   breakdown |-> [verified |-> 0, uncertain |-> 0, hallucinated |-> 0,
                  total |-> 0]]

\* analyze's claims array: the id c<idx+1>, the claim and its verification
VerifiedClaims ==
  [i \in 1..Len(pipes) |->
     [id |-> <<"c", i>>, claim |-> run.claims[i],
      status |-> pipes[i].result.status,
      confidence |-> pipes[i].result.confidence,
      explanation |-> pipes[i].result.explanation,
      evidence |-> pipes[i].result.evidence]]

\* the value analyze returns (analysisId is the stored document's _id)
AnalyzeResult(verifiedClaims) ==
  LET scoreResult == calculateTrustScore(verifiedClaims)
      breakdown == Breakdown(scoreResult, verifiedClaims) IN
    [score |-> scoreResult.score,
     label |-> scoreResult.label,
     claims |-> verifiedClaims,
     verifiedText |-> SelectSeq(verifiedClaims, LAMBDA x: x.status = "verified"),
     summary |-> Summary(breakdown),
     breakdown |-> breakdown]

\* analyze throws the error raised at `site`
Throw(site) == [run EXCEPT !.pc = "thrown", !.error = site]

\* extractClaims returned `claims`: claims.map starts a pipeline per claim
\* and analyze awaits Promise.all; claims.map raises on a non-array
StartPipelines(isArray, claims) ==
  IF isArray \/ Caught("claims.map")
  THEN /\ run' = [run EXCEPT !.pc = "verifying", !.claims = claims]
       /\ pipes' = [i \in 1..Len(claims) |-> StartedPipe]
  ELSE /\ run' = Throw("claims.map")
       /\ UNCHANGED pipes

\* one try block of extractClaims settles; after the last one has failed
\* the text is split into sentences (idx then is past the providers)
ExtractSettle ==
  /\ run.pc = "extract"
  /\ \E reply \in ExtractReplies(run.text) :
       LET site == ExtractFailure(reply) IN
         IF site = "none"
         THEN StartPipelines(reply.kind = "array", reply.claims)
         ELSE IF ~Caught(site)
         THEN run' = Throw(site) /\ UNCHANGED pipes
         ELSE IF run.idx < Len(ExtractOrder)
         THEN run' = [run EXCEPT !.idx = @ + 1] /\ UNCHANGED pipes
         ELSE /\ run' = [run EXCEPT !.pc = "verifying", !.idx = @ + 1,
                                    !.claims = SentenceSplit(run.text)]
              /\ pipes' = [i \in 1..Len(SentenceSplit(run.text)) |-> StartedPipe]
  /\ UNCHANGED <<db, stats, failureEvents, limiterVars, rprov, calls, callVars, loader>>

\* Promise.all rejects as soon as one verifyClaim rejects: analyze throws
\* (the other pipelines run on, their results are dropped)
PromiseAllRejects ==
  /\ run.pc = "verifying"
  /\ \E c \in 1..Len(pipes) :
       /\ pipes[c].pc = "rejected"
       /\ run' = Throw(pipes[c].error)
  /\ UNCHANGED <<pipes, db, stats, failureEvents, limiterVars, rprov, calls, callVars, loader>>

\* a Promise.all that resolves with the first verifyClaim that returned
PromiseAllResolvesAny ==
  /\ run.pc = "verifying"
  /\ \E c \in 1..Len(pipes) : pipes[c].pc = "done"
  /\ run' = [run EXCEPT !.pc = "saving"]
  /\ UNCHANGED <<pipes, db, stats, failureEvents, limiterVars, rprov, calls, callVars, loader>>

\* Promise.all resolves once every verifyClaim has returned: the score, the
\* verified text and the sources are computed and the document is handed
\* to VerificationResult.create
PromiseAllResolves ==
  /\ run.pc = "verifying"
  /\ \A c \in 1..Len(pipes) : pipes[c].pc = "done"
  /\ run' = [run EXCEPT !.pc = "saving"]
  /\ UNCHANGED <<pipes, db, stats, failureEvents, limiterVars, rprov, calls, callVars, loader>>

\* VerificationResult.create settles: the stored document, or a rejection,
\* which analyze does not catch
SaveSettle ==
  /\ run.pc = "saving"
  /\ LET result == AnalyzeResult(VerifiedClaims) IN
     \E ok \in BOOLEAN :
       IF ok \/ Caught("VerificationResult.create")
       THEN /\ db' = Append(db, [trustScore |-> result.score,
                                 label |-> result.label,
                                 claims |-> result.claims])
            /\ run' = [run EXCEPT !.pc = "returned", !.outcome = result]
       ELSE /\ run' = Throw("VerificationResult.create")
            /\ UNCHANGED db
  /\ UNCHANGED <<pipes, stats, failureEvents, limiterVars, rprov, calls, callVars, loader>>

\* ------------------------------------------------------------------------
\* enforceStrictVerdict on its own: every raw verdict, every claim
\* ------------------------------------------------------------------------

\* the raw verdicts JSON.parse may hand to enforceStrictVerdict
RawVerdicts ==
  [status : RawStatuses, confidence : RawConfidences, reason : RawReasons]

\* the claims: "All cats are grey", "Rome is in Italy", "A tall man won"
EnforceClaims ==
  {SentenceSplit(d)[1] : d \in {DocOneClaim, DocPlainClaim, DocHiddenWord}}

NoVerdict == [status |-> "none", confidence |-> Undefined, reason |-> NoString]

NoEnforceCall ==
  [pc |-> "idle", claim |-> <<>>, parsed |-> NoVerdict, enforced |-> NoVerdict]

\* enforceStrictVerdict(parsed, claim) returns
EnforceReturns ==
  /\ enforceCall.pc = "called"
  /\ enforceCall' =
       [enforceCall EXCEPT !.pc = "returned",
          !.enforced = enforceStrictVerdict(enforceCall.parsed, enforceCall.claim)]
  /\ UNCHANGED <<limiterVars, retryVars, analyzeVars, scoreCall, evidenceCall, loader>>

\* ---- calculateTrustScore and the summary of analyze on their own

\* n claims of status st (only the status of a claim is read)
ClaimsOfStatus(st, n) == [i \in 1..n |-> [status |-> st]]

\* the lists of verified claims given: every distribution of up to
\* MaxScoreClaims claims over the three statuses, in two orders
ScoreInputs ==
  LET grouped ==
        {ClaimsOfStatus("verified", v) \o ClaimsOfStatus("uncertain", u)
           \o ClaimsOfStatus("hallucinated", h) :
           <<v, u, h>> \in {c \in (0..MaxScoreClaims) \X (0..MaxScoreClaims)
                                   \X (0..MaxScoreClaims) :
                              c[1] + c[2] + c[3] <= MaxScoreClaims}}
  IN grouped \cup {[i \in 1..Len(q) |-> q[Len(q) + 1 - i]] : q \in grouped}

NoScoreCall ==
  [pc |-> "idle", claims |-> <<>>,
   scoreResult |-> [score |-> 0, label |-> "none", hasBreakdown |-> FALSE,
                    verified |-> 0, uncertain |-> 0, hallucinated |-> 0,
                    total |-> 0],
   outcome |-> NoOutcome]

\* calculateTrustScore(verifiedClaims) returns
ScoreReturns ==
  /\ scoreCall.pc = "called"
  /\ scoreCall' = [scoreCall EXCEPT !.pc = "scored",
                     !.scoreResult = calculateTrustScore(scoreCall.claims)]
  /\ UNCHANGED <<limiterVars, retryVars, analyzeVars, enforceCall, evidenceCall, loader>>

\* analyze builds what it returns: verifiedText, breakdown and summary
AnalyzeAggregates ==
  /\ scoreCall.pc = "scored"
  /\ scoreCall' = [scoreCall EXCEPT !.pc = "returned",
                     !.outcome = AnalyzeResult(scoreCall.claims)]
  /\ UNCHANGED <<limiterVars, retryVars, analyzeVars, enforceCall, evidenceCall, loader>>

\* ---- getEvidence and the stored runs

\* the runs stored at most
MaxRuns == 2

\* VerificationResult.find().limit(50)
FindLimit == 50

\* a claim as analyze stores it: verifyClaim's result under the id c<i>
StoredClaim(i, llmStatus, wikiHits) ==
  LET r == VerifyResult([status |-> llmStatus, confidence |-> Num(90),
                         reason |-> Str("reason")], wikiHits, 0) IN
    [id |-> <<"c", i>>, claim |-> SentenceSplit(DocTwoClaims)[i],
     status |-> r.status, confidence |-> r.confidence,
     explanation |-> r.explanation, evidence |-> r.evidence]

\* the claims arrays of the runs stored: one or two claims, verified or
\* hallucinated, with or without a Wikipedia source
StoredClaimLists ==
  LET one(i) == {StoredClaim(i, st, w) :
                   st \in {"verified", "hallucinated"}, w \in {0, 1}}
  IN {<<a>> : a \in one(1)} \cup {<<a, b>> : a \in one(1), b \in one(2)}

NoEvidence ==
  [kind |-> "none", claimId |-> <<>>, status |-> "none", evidence |-> <<>>,
   exists |-> FALSE, valid |-> FALSE, reason |-> "none"]

NoEvidenceCall ==
  [pc |-> "idle", claimId |-> <<>>, seen |-> 0, response |-> NoEvidence]

\* an analyze call from its start to its return: the document it stores
AnalyzeStores ==
  /\ Len(db) < MaxRuns
  /\ \E claims \in StoredClaimLists :
       LET result == AnalyzeResult(claims) IN
         db' = Append(db, [trustScore |-> result.score, label |-> result.label,
                           claims |-> result.claims])
  /\ UNCHANGED <<run, pipes, limiterVars, retryVars, callVars, loader>>

\* what getEvidence returns for the claim found
EvidenceOf(claim) ==
  [kind |-> "found", claimId |-> claim.id, status |-> claim.status,
   evidence |-> claim.evidence,
   exists |-> Len(claim.evidence) > 0,
   valid |-> claim.status = "VERIFIED",
   reason |-> IF claim.status = "VERIFIED"
              THEN "Citation matches supporting source"
              ELSE "Citation missing or contradicted"]

\* getEvidence(claimId): the first claim of that id in the first FindLimit
\* stored documents, taken in the order they were stored; not_found is
\* thrown when there is none
GetEvidence ==
  /\ \E claimId \in {<<"c", i>> : i \in 1..3} :
       LET allResults == SliceTo(db, FindLimit)
           hits == {<<r, k>> \in (1..Len(allResults)) \X (1..2) :
                      /\ k <= Len(allResults[r].claims)
                      /\ allResults[r].claims[k].id = claimId}
           first == CHOOSE h \in hits :
                      \A g \in hits :
                        h[1] < g[1] \/ (h[1] = g[1] /\ h[2] <= g[2])
       IN evidenceCall' =
            [pc |-> "returned", claimId |-> claimId, seen |-> Len(db),
             response |->
               IF hits = {}
               THEN [NoEvidence EXCEPT !.kind = "not_found"]
               ELSE EvidenceOf(allResults[first[1]].claims[first[2]])]
  /\ UNCHANGED <<analyzeVars, limiterVars, retryVars, enforceCall, scoreCall, loader>>

\* ---- the evaluation of the module rate-limiter.service

\* before the module is evaluated
UnevaluatedModule ==
  [pc |-> "start", PQueue |-> "undefined", import |-> "none",
   QueueImpl |-> "none"]

\* the module body runs from top to bottom without a pause: the async
\* function calls import("p-queue") and is suspended at its await, the
\* classes are defined, and new RateLimiter() builds the three queues
\* with QueueImpl = PQueue || SimpleQueue
ModuleEvaluates ==
  /\ loader.pc = "start"
  /\ loader' = [loader EXCEPT !.pc = "evaluated", !.import = "pending",
                   !.QueueImpl = IF loader.PQueue = "undefined"
                                 THEN "SimpleQueue" ELSE loader.PQueue]
  /\ UNCHANGED <<analyzeVars, limiterVars, retryVars, callVars>>

\* the dynamic import settles and the async function resumes: PQueue =
\* module.default, or the await throws and PQueue stays undefined
ImportSettles ==
  /\ loader.import = "pending"
  /\ \E ok \in BOOLEAN :
       loader' = IF ok
                 THEN [loader EXCEPT !.import = "loaded", !.PQueue = "p-queue"]
                 ELSE [loader EXCEPT !.import = "failed"]
  /\ UNCHANGED <<analyzeVars, limiterVars, retryVars, callVars>>

\* the module long after its evaluation
EvaluatedModule ==
  [pc |-> "evaluated", PQueue |-> "p-queue", import |-> "loaded",
   QueueImpl |-> "SimpleQueue"]

\* the queues of the singleton are SimpleQueues and in use
SimpleQueueInUse == loader.pc = "evaluated" /\ loader.QueueImpl = "SimpleQueue"

IdleRun ==
  [pc |-> "idle", idx |-> 1, text |-> <<>>, claims |-> <<>>, error |-> "none",
   outcome |-> NoOutcome]

AnalyzeIdle ==
  /\ run = IdleRun
  /\ pipes = <<>>
  /\ db = <<>>
  /\ enforceCall = NoEnforceCall
  /\ scoreCall = NoScoreCall
  /\ evidenceCall = NoEvidenceCall
  /\ loader = EvaluatedModule

\* analyze(text) is called: extractClaims calls its first provider
AnalyzeInit ==
  /\ \E text \in Documents : run = [IdleRun EXCEPT !.pc = "extract", !.text = text]
  /\ pipes = <<>>
  /\ db = <<>>
  /\ enforceCall = NoEnforceCall
  /\ scoreCall = NoScoreCall
  /\ evidenceCall = NoEvidenceCall
  /\ loader = EvaluatedModule
  /\ LimiterIdle
  /\ RetryIdle

AnalyzeNext ==
  \/ ExtractSettle
  \/ \E c \in 1..Len(pipes) : EntitySettle(c)
  \/ \E c \in 1..Len(pipes) : WikiSettle(c)
  \/ \E c \in 1..Len(pipes) : SearchSettle(c)
  \/ \E c \in 1..Len(pipes) : VerdictSettle(c)
  \/ PromiseAllRejects
  \/ PromiseAllResolves
  \/ SaveSettle

Spec == AnalyzeInit /\ [][AnalyzeNext]_vars

\* What the code guarantees to happen: the lookups of getWikipediaSummary
\* (timeout: 8000) and of searchWeb (timeout: 10000) settle, and a settled
\* Promise.all resumes analyze. The calls of the reasoning providers are
\* made without a timeout, so nothing in the code makes them settle.
SpecFair ==
  /\ Spec
  /\ WF_vars(\E c \in 1..Len(pipes) : WikiSettle(c))
  /\ WF_vars(\E c \in 1..Len(pipes) : SearchSettle(c))
  /\ WF_vars(PromiseAllRejects)
  /\ WF_vars(PromiseAllResolves)

\* analyze of a document of two claims, whose pipelines run concurrently;
\* the providers' replies are drawn from smaller sets
JoinAnalysisReplies ==
  {r \in AnalysisReplies : r.kind = "error" \/ r.entities # <<>>}

JoinVerdictReplies ==
  {r \in VerdictReplies :
     \/ r.kind = "error"
     \/ /\ r.kind = "json"
        /\ r.status \in {"verified", "hallucinated"}
        /\ r.confidence = Num(90)
        /\ r.reason # NoString}

JoinEntitySettle(c) == EntitySettleOf(c, JoinAnalysisReplies)

JoinVerdictSettle(c) == VerdictSettleOf(c, JoinVerdictReplies)

JoinInit ==
  /\ run = [IdleRun EXCEPT !.pc = "extract", !.text = DocTwoClaims]
  /\ pipes = <<>>
  /\ db = <<>>
  /\ enforceCall = NoEnforceCall
  /\ scoreCall = NoScoreCall
  /\ evidenceCall = NoEvidenceCall
  /\ loader = EvaluatedModule
  /\ LimiterIdle
  /\ RetryIdle

JoinNext ==
  \/ ExtractSettle
  \/ \E c \in 1..Len(pipes) : JoinEntitySettle(c)
  \/ \E c \in 1..Len(pipes) : WikiSettle(c)
  \/ \E c \in 1..Len(pipes) : SearchSettle(c)
  \/ \E c \in 1..Len(pipes) : JoinVerdictSettle(c)
  \/ PromiseAllRejects
  \/ PromiseAllResolves
  \/ SaveSettle

SpecJoin == JoinInit /\ [][JoinNext]_vars

EnforceInit ==
  /\ \E claim \in EnforceClaims, parsed \in RawVerdicts :
       enforceCall = [NoEnforceCall EXCEPT !.pc = "called", !.claim = claim,
                                          !.parsed = parsed]
  /\ scoreCall = NoScoreCall
  /\ evidenceCall = NoEvidenceCall
  /\ loader = EvaluatedModule
  /\ run = IdleRun
  /\ pipes = <<>>
  /\ db = <<>>
  /\ LimiterIdle
  /\ RetryIdle

EnforceNext == EnforceReturns

SpecEnforce == EnforceInit /\ [][EnforceNext]_vars

ScoreInit ==
  /\ \E claims \in ScoreInputs :
       scoreCall = [NoScoreCall EXCEPT !.pc = "called", !.claims = claims]
  /\ enforceCall = NoEnforceCall
  /\ evidenceCall = NoEvidenceCall
  /\ loader = EvaluatedModule
  /\ run = IdleRun
  /\ pipes = <<>>
  /\ db = <<>>
  /\ LimiterIdle
  /\ RetryIdle

ScoreNext == ScoreReturns \/ AnalyzeAggregates

SpecScore == ScoreInit /\ [][ScoreNext]_vars

EvidenceInit ==
  /\ AnalyzeIdle
  /\ LimiterIdle
  /\ RetryIdle

EvidenceNext == AnalyzeStores \/ GetEvidence

SpecEvidence == EvidenceInit /\ [][EvidenceNext]_vars

\* the process starts: the module is not evaluated yet; a provider's queue
\* is used once the singleton exists
LoadInit ==
  /\ loader = UnevaluatedModule
  /\ qprov \in Providers
  /\ now = 0
  /\ requestTimes = <<>>
  /\ sleepers = EmptyBag
  /\ admitLog = <<>>
  /\ ncalls = 0
  /\ RetryIdle
  /\ run = IdleRun
  /\ pipes = <<>>
  /\ db = <<>>
  /\ enforceCall = NoEnforceCall
  /\ scoreCall = NoScoreCall
  /\ evidenceCall = NoEvidenceCall

LoadNext ==
  \/ ModuleEvaluates
  \/ ImportSettles
  \/ SimpleQueueInUse /\ QueueAdd
  \/ SimpleQueueInUse /\ QueueWake
  \/ SimpleQueueInUse /\ Tick

SpecLoad == LoadInit /\ [][LoadNext]_vars

RetryInit ==
  /\ rprov \in Providers
  /\ calls = [c \in CallIds |-> IdleCall]
  /\ stats = InitialStats
  /\ failureEvents = [p \in EventSources |-> 0]
  /\ LimiterIdle
  /\ AnalyzeIdle

RetryNext ==
  \E c \in CallIds :
    \/ Invoke(c)
    \/ AttemptSucceeds(c)
    \/ AttemptFails(c)
    \/ BackoffElapses(c)

SpecRetry == RetryInit /\ [][RetryNext]_vars

LimiterInit ==
  /\ qprov \in Providers
  /\ now = 0
  /\ requestTimes = <<>>
  /\ sleepers = EmptyBag
  /\ admitLog = <<>>
  /\ ncalls = 0
  /\ RetryIdle
  /\ AnalyzeIdle

LimiterNext == QueueAdd \/ QueueWake \/ Tick

SpecLimiter == LimiterInit /\ [][LimiterNext]_vars

\* the event loop fires every timer whose delay has elapsed, and time passes
SpecLimiterFair ==
  /\ SpecLimiter
  /\ WF_vars(QueueWake)
  /\ WF_vars(Tick)

\* number of admissions that start in the window [t, t + Interval)
AdmissionsFrom(t) ==
  Cardinality({j \in 1..Len(admitLog) :
                 admitLog[j] >= t /\ admitLog[j] - t < Interval})

\* C1: under every interleaving of concurrent callers of add, no more than
\* IntervalCap(provider) admissions start within any interval of length
\* Interval.
C1_WindowCap ==
  \A i \in 1..Len(admitLog) : AdmissionsFrom(admitLog[i]) <= IntervalCap(qprov)

\* the delays 1000, 2000, 4000, ... of n backoff waits
Backoffs(n) == [i \in 1..n |-> 1000 * 2^(i - 1)]

Thrown(c) == calls[c].pc = "thrown"

NumCalls(state) == Cardinality({c \in CallIds : calls[c].pc = state})

\* C3: every call whose maxRetries attempts all failed (maxRetries >= 0) grew
\* failureCount by exactly one, set lastError, emitted exactly one failure
\* event and threw its last error; a call that succeeded grew successCount by
\* one and left failureCount alone.
C3_ExhaustionRecorded ==
  /\ stats[rprov].failureCount = NumCalls("thrown")
  /\ failureEvents[rprov] = NumCalls("thrown")
  /\ stats[rprov].successCount = NumCalls("returned")
  /\ NumCalls("thrown") > 0 => stats[rprov].lastError # NoError
  /\ \A c \in CallIds :
       Thrown(c) => /\ calls[c].thrown = calls[c].lastError
                    /\ calls[c].thrown # NoError

\* ------------------------------------------------------------------------
\* Claims about the provider cascades and about analyze (Spec)
\* ------------------------------------------------------------------------

CascadeStages == {"entity", "verdict"}

\* the pipelines that take a step of a provider cascade in this transition
CascadeSteppers ==
  {c \in 1..Len(pipes) : pipes[c].pc \in CascadeStages /\ pipes'[c] # pipes[c]}

TheDefaultVerdict(r) ==
  /\ r.status = "hallucinated"
  /\ r.confidence = Num(85)
  /\ r.explanation =
       Str("AI verification unavailable. Claim cannot be verified without AI reasoning.")

\* C5: when the third provider of the verdict cascade fails too, the claim's
\* verdict is {hallucinated, 85, "AI verification unavailable..."}, whatever
\* evidence was gathered; a result reported after the failure of all
\* providers is never Verified.
C5_DefaultVerdictOnExhaustion ==
  [][\A c \in CascadeSteppers :
       LET last == "openrouter"
           failedLast ==
             /\ pipes[c].pc = "verdict"
             /\ pipes[c].idx = 3
             /\ \/ stats'[last].failureCount # stats[last].failureCount
                \/ failureEvents'["all"] # failureEvents["all"]
       IN failedLast =>
            /\ pipes'[c].pc = "done"
            /\ TheDefaultVerdict(pipes'[c].result)
            /\ pipes'[c].result.status # "verified"
            /\ failureEvents'["all"] = failureEvents["all"] + 1]_vars

\* every verdict provider failed for a claim that has Wikipedia evidence
C5_Witness ==
  /\ Len(pipes) = 1
  /\ pipes[1].pc = "done"
  /\ failureEvents["all"] = 1
  /\ \A p \in Providers : stats[p].failureCount >= 1
  /\ TheDefaultVerdict(pipes[1].result)
  /\ pipes[1].result.evidence[1].source[1] = "Wikipedia"

FinalStatuses == {"verified", "uncertain", "hallucinated"}

\* C6: whatever providers fail, analyze completes and returns a verdict for
\* every extracted claim: as long as analyze has neither returned nor thrown
\* a step is possible; when it throws, the error was not raised by a
\* provider's call (it is the TypeError of a reply that is not of the
\* expected shape, or the rejection of the save); the result it returns has
\* one entry per extracted claim, each with a final status.
C6_SurvivesProviderFailures ==
  /\ run.pc \in {"extract", "verifying", "saving"} => ENABLED AnalyzeNext
  /\ run.pc = "thrown" =>
       run.error \in {"claims.map", "entity.replace", "VerificationResult.create"}
  /\ run.pc = "returned" =>
       /\ Len(run.outcome.claims) = Len(run.claims)
       /\ \A i \in 1..Len(run.claims) :
            /\ run.outcome.claims[i].claim = run.claims[i]
            /\ run.outcome.claims[i].status \in FinalStatuses

\* every call of every provider failed (extraction went past its three
\* providers, both cascades of the claim failed three times) and analyze
\* returned
C6_Witness ==
  /\ run.pc = "returned"
  /\ run.idx = 4
  /\ Len(run.outcome.claims) = 1
  /\ failureEvents["all"] = 1
  /\ \A p \in Providers : stats[p].failureCount = 2 /\ stats[p].successCount = 0

\* C10: a claim for which neither Wikipedia nor the web search returned
\* anything (the evidence array is empty, the result carries the engine's
\* own item) is never Verified.
C10_NoEvidenceNeverVerified ==
  \A c \in 1..Len(pipes) :
    (/\ pipes[c].pc = "done"
     /\ pipes[c].result.evidence[1].source[1] = "AI Verification Engine")
    => pipes[c].result.status # "verified"

\* ------------------------------------------------------------------------
\* Claims about enforceStrictVerdict (SpecEnforce)
\* ------------------------------------------------------------------------

Returned == enforceCall.pc = "returned"

\* C7: every raw verdict with status partially_verified leaves the
\* enforcement pass as hallucinated, whatever its confidence and the claim.
C7_PartialBecomesHallucinated ==
  (Returned /\ enforceCall.parsed.status = "partially_verified")
    => enforceCall.enforced.status = "hallucinated"

C7_Witness ==
  /\ Returned
  /\ enforceCall.parsed.status = "partially_verified"
  /\ enforceCall.parsed.confidence = Num(90)
  /\ enforceCall.enforced.status = "hallucinated"

\* C8: a raw verified verdict with confidence below 85 (80, say) leaves the
\* enforcement pass as hallucinated, one with confidence 90 stays verified
\* for every claim, and a raw hallucinated verdict never becomes verified.
C8_ConfidenceFloor ==
  Returned =>
    /\ (enforceCall.parsed.status = "verified" /\ Lt(enforceCall.parsed.confidence, 85))
         => enforceCall.enforced.status = "hallucinated"
    /\ (enforceCall.parsed.status = "verified" /\ enforceCall.parsed.confidence = Num(90))
         => enforceCall.enforced.status = "verified"
    /\ enforceCall.parsed.status = "hallucinated"
         => enforceCall.enforced.status # "verified"

C8_Witness ==
  /\ Returned
  /\ enforceCall.parsed.status = "verified"
  /\ enforceCall.parsed.confidence = Num(80)
  /\ enforceCall.enforced.status = "hallucinated"

\* C9: for a claim with an absolutist word and every numeric raw
\* confidence, also above 100 or below 0, a verdict that leaves the
\* enforcement pass as verified has a confidence of at least 90.
C9_AbsoluteClaimFloor ==
  (/\ Returned
   /\ isAbsoluteClaim(enforceCall.claim)
   /\ enforceCall.parsed.confidence # Undefined
   /\ enforceCall.enforced.status = "verified")
  => ~Lt(enforceCall.enforced.confidence, 90)

\* ------------------------------------------------------------------------
\* Claims about the results of analyze, the cascades and the statistics
\* ------------------------------------------------------------------------

\* a confidence that is a number of the range lo..hi
ConfidenceWithin(x, lo, hi) == x # Undefined /\ x[1] >= lo /\ x[1] <= hi

\* C11: every claim of every result of analyze has a status of verified,
\* hallucinated or uncertain and a confidence that is a number with
\* 0 <= confidence <= 100, in fact within 85..100, whatever raw status and
\* raw confidence the provider returned.
C11_StatusAndConfidenceRange ==
  run.pc = "returned" =>
    \A i \in 1..Len(run.outcome.claims) :
      /\ run.outcome.claims[i].status \in FinalStatuses
      /\ ConfidenceWithin(run.outcome.claims[i].confidence, 0, 100)
      /\ ConfidenceWithin(run.outcome.claims[i].confidence, 85, 100)

\* the provider whose call pipeline c awaits inside a cascade
CalledProvider(c) ==
  IF pipes[c].pc = "verdict" THEN VerdictOrder[pipes[c].idx]
  ELSE EntityOrder[pipes[c].idx]

\* C12: a reply that cannot be parsed is a failure of its provider: a
\* cascade moves on to the next provider only when the call of
\* executeWithRetry was exhausted, that is with the provider's failureCount
\* grown by one and its successCount unchanged.
C12_ParseFailureIsProviderFailure ==
  [][\A c \in CascadeSteppers :
       (pipes'[c].pc = pipes[c].pc /\ pipes'[c].idx = pipes[c].idx + 1)
       => /\ stats'[CalledProvider(c)].failureCount
               = stats[CalledProvider(c)].failureCount + 1
          /\ stats'[CalledProvider(c)].successCount
               = stats[CalledProvider(c)].successCount]_vars

\* one claim was taken to its verdict and no call of any provider succeeded
OutageForOneClaim ==
  /\ Len(pipes) = 1
  /\ pipes[1].pc = "done"
  /\ \A p \in Providers : stats[p].successCount = 0

\* C13 as stated: when every call of every provider fails, one claim ends
\* with the default verdict and failureCount of each provider has grown by
\* exactly one.
C13_OutageCountsOnce ==
  OutageForOneClaim =>
    /\ TheDefaultVerdict(pipes[1].result)
    /\ \A p \in Providers : stats[p].failureCount = 1

\* C13: when every call of every provider fails, one claim ends with the
\* default verdict and failureCount of each provider has grown by exactly
\* two, once for the exhausted call of the entity extraction cascade and
\* once for the exhausted call of the verdict cascade.
C13_OutageCountsPerCascade ==
  OutageForOneClaim =>
    /\ TheDefaultVerdict(pipes[1].result)
    /\ \A p \in Providers :
         /\ stats[p].failureCount = 2
         /\ failureEvents[p] = 2

C13_Witness ==
  /\ OutageForOneClaim
  /\ TheDefaultVerdict(pipes[1].result)
  /\ stats["gemini"].failureCount = 2
  /\ stats["groq"].failureCount = 2
  /\ stats["openrouter"].failureCount = 2

\* the executeWithRetry calls with maxRetries >= 1 that have completed
CompletedCalls ==
  {c \in CallIds : calls[c].pc \in {"returned", "thrown"} /\ calls[c].maxRetries >= 1}

ClockEnd == MaxTicks * TickMs

\* C15: the first IntervalCap requests to one provider are admitted without
\* waiting; the next one is admitted no earlier than Interval after the
\* oldest admission; no request is dropped (each is admitted or asleep on
\* its timer), and every sleeper whose timer expires within the clock's
\* range is eventually admitted.
C15_DelayedNotDropped ==
  /\ [](/\ ncalls <= IntervalCap(qprov)
             => sleepers = EmptyBag /\ Len(admitLog) = ncalls
        /\ Len(admitLog) > IntervalCap(qprov)
             => admitLog[IntervalCap(qprov) + 1] >= admitLog[1] + Interval
        /\ Len(admitLog) + BagCardinality(sleepers) = ncalls)
  /\ <>[](\A d \in BagToSet(sleepers) : d > ClockEnd)

\* IntervalCap requests admitted at time 0 and one more admitted when its
\* timer fired, Interval + 100 later
C15_Witness ==
  /\ ncalls = IntervalCap(qprov) + 1
  /\ Len(admitLog) = IntervalCap(qprov) + 1
  /\ admitLog[IntervalCap(qprov)] = 0
  /\ admitLog[IntervalCap(qprov) + 1] = Interval + 100

\* ------------------------------------------------------------------------
\* the calls executeWithRetry has recorded for provider p
Recorded(st, p) == st[p].successCount + st[p].failureCount

\* C16: every provider call made during analyze goes through
\* executeWithRetry: whenever a provider call of extractClaims, of
\* extractClaimAnalysis or of getLLMVerdict settles, executeWithRetry has
\* recorded one more call for that provider.
C16_EveryCallThroughRetry ==
  [][/\ (run.pc = "extract" /\ run' # run)
          => Recorded(stats', ExtractOrder[run.idx])
               = Recorded(stats, ExtractOrder[run.idx]) + 1
     /\ \A c \in CascadeSteppers :
          Recorded(stats', CalledProvider(c))
            = Recorded(stats, CalledProvider(c)) + 1]_vars

\* ------------------------------------------------------------------------
\* C17: whatever the order in which the concurrent pipelines complete, the
\* trust score is computed (the run is past Promise.all) only when every
\* claim's pipeline has returned its verdict; the returned result holds
\* exactly one entry per extracted claim, the i-th entry has the id c<i>,
\* the i-th claim and the status, confidence, explanation and evidence that
\* the i-th pipeline returned, and the score is the score of these entries.
C17_BarrierAndJoin ==
  /\ run.pc \in {"saving", "returned"}
       => \A c \in 1..Len(pipes) : pipes[c].pc = "done"
  /\ run.pc = "returned"
       => /\ Len(pipes) = Len(run.claims)
          /\ Len(run.outcome.claims) = Len(run.claims)
          /\ \A i \in 1..Len(run.claims) :
               /\ run.outcome.claims[i].id = <<"c", i>>
               /\ run.outcome.claims[i].claim = run.claims[i]
               /\ run.outcome.claims[i].status \in FinalStatuses
               /\ run.outcome.claims[i].status = pipes[i].result.status
               /\ run.outcome.claims[i].confidence = pipes[i].result.confidence
               /\ run.outcome.claims[i].explanation = pipes[i].result.explanation
               /\ run.outcome.claims[i].evidence = pipes[i].result.evidence
          /\ run.outcome.score = calculateTrustScore(run.outcome.claims).score

\* a returned run of two claims whose verdicts differ
C17_Witness ==
  /\ run.pc = "returned"
  /\ Len(run.outcome.claims) = 2
  /\ run.outcome.claims[1].status = "hallucinated"
  /\ run.outcome.claims[2].status = "verified"

\* ------------------------------------------------------------------------
\* the pipelines whose verifyClaim rejected
RejectedPipes == {c \in 1..Len(pipes) : pipes[c].pc = "rejected"}

\* C18: a run in which the pipeline of one claim has rejected does not end
\* by throwing: when it has ended it has returned, and its outcome holds
\* the verdict of every sibling claim whose pipeline returned one.
C18_SiblingsSurviveFailure ==
  (RejectedPipes # {} /\ run.pc \in {"thrown", "returned"})
    => /\ run.pc = "returned"
       /\ \A i \in 1..Len(pipes) :
            pipes[i].pc = "done"
              => \E j \in 1..Len(run.outcome.claims) :
                   /\ run.outcome.claims[j].id = <<"c", i>>
                   /\ run.outcome.claims[j].status = pipes[i].result.status

\* ------------------------------------------------------------------------
\* C19: a failure of VerificationResult.create never makes analyze throw;
\* analyze returns, and what it returns is the result computed from the
\* claims' verdicts, whether the save succeeded or not.
C19_SaveFailureSwallowed ==
  /\ run.pc = "thrown" => run.error # "VerificationResult.create"
  /\ run.pc = "returned" => run.outcome = AnalyzeResult(VerifiedClaims)

\* ------------------------------------------------------------------------
\* C20: once the pipelines of a run have started, eventually every claim has
\* its verdict or the run has failed; no pipeline waits forever.
C20_NoPipelineHangs ==
  (run.pc = "verifying")
    ~> (\/ run.pc = "thrown"
        \/ \A c \in 1..Len(pipes) : pipes[c].pc = "done")

\* ------------------------------------------------------------------------
\* a getWikipediaSummary call of pipeline c is awaited
LookupPending(c) == pipes[c].pc = "wiki"

\* searchWeb of pipeline c has been called
SearchStarted(c) == pipes[c].pc \in {"search", "verdict", "done"}

\* C21: within one claim the web search runs beside the knowledge-base
\* lookups: while a lookup is still awaited the search has already been
\* started, it does not wait for the lookups to finish.
C21_SearchBesideLookups ==
  \A c \in 1..Len(pipes) : LookupPending(c) => SearchStarted(c)

\* ------------------------------------------------------------------------
\* Claims about calculateTrustScore and the summary
\* ------------------------------------------------------------------------

\* calculateTrustScore has returned for the claims given
Scored == scoreCall.pc \in {"scored", "returned"}

ScoredV == CountStatus(scoreCall.claims, "verified")
ScoredU == CountStatus(scoreCall.claims, "uncertain")
ScoredH == CountStatus(scoreCall.claims, "hallucinated")
ScoredT == Len(scoreCall.claims)

\* round(100 * (V + 0.3 U - 1.5 H + 1.5 T) / (2.5 T)) in exact arithmetic,
\* halves upwards: round(4 * (10 V + 3 U - 15 H + 15 T) / T)
ExactRoundedScore(v, u, h, t) ==
  LET n == 10 * v + 3 * u - 15 * h + 15 * t
      clamped == IF 4 * n > 100 * t THEN 100 * t ELSE IF n < 0 THEN 0 ELSE 4 * n
  IN (2 * clamped + t) \div (2 * t)

\* C22: calculateTrustScore of N >= 1 verified claims is 100, of N >= 1
\* hallucinated claims 0, of no claims 50 with the label No Claims; every
\* score is an integer of 0..100 and equals
\* round(100 * (V + 0.3 U - 1.5 H + 1.5 T) / (2.5 T)).
C22_ScoreFormula ==
  Scored =>
    /\ ScoredT = 0 => /\ scoreCall.scoreResult.score = 50
                      /\ scoreCall.scoreResult.label = "No Claims"
    /\ (ScoredT >= 1 /\ ScoredV = ScoredT) => scoreCall.scoreResult.score = 100
    /\ (ScoredT >= 1 /\ ScoredH = ScoredT) => scoreCall.scoreResult.score = 0
    /\ scoreCall.scoreResult.score \in 0..100
    /\ ScoredT >= 1 =>
         scoreCall.scoreResult.score
           = ExactRoundedScore(ScoredV, ScoredU, ScoredH, ScoredT)

\* ------------------------------------------------------------------------
RiskLabels ==
  {"High Risk - Multiple Hallucinations",
   "Review Required - Hallucinations Detected",
   "Caution - Hallucination Detected"}

ConfidenceLabels ==
  {"High Confidence", "Moderate Confidence",
   "Low Confidence - Mostly Uncertain", "Review Recommended"}

\* C23: for T >= 1 claims the label is given by the counts alone, through
\* this cascade: with H > 0, High Risk if H is at least 50% of T, else
\* Review Required if H >= 2, else Caution; with H = 0, High Confidence if
\* V is at least 70% of T, else Moderate Confidence if V is at least 50% of
\* T, else Low Confidence if U is at least 70% of T, else Review
\* Recommended. A list with a hallucinated claim never gets one of the
\* four labels of the H = 0 branch.
C23_LabelCascade ==
  (Scored /\ ScoredT >= 1) =>
    LET label == scoreCall.scoreResult.label
        halfH == 100 * ScoredH >= 50 * ScoredT
        v70 == 100 * ScoredV >= 70 * ScoredT
        v50 == 100 * ScoredV >= 50 * ScoredT
        u70 == 100 * ScoredU >= 70 * ScoredT IN
      /\ (ScoredH > 0 /\ halfH)
           => label = "High Risk - Multiple Hallucinations"
      /\ (ScoredH > 0 /\ ~halfH /\ ScoredH >= 2)
           => label = "Review Required - Hallucinations Detected"
      /\ (ScoredH > 0 /\ ~halfH /\ ScoredH < 2)
           => label = "Caution - Hallucination Detected"
      /\ (ScoredH = 0 /\ v70) => label = "High Confidence"
      /\ (ScoredH = 0 /\ ~v70 /\ v50) => label = "Moderate Confidence"
      /\ (ScoredH = 0 /\ ~v50 /\ u70)
           => label = "Low Confidence - Mostly Uncertain"
      /\ (ScoredH = 0 /\ ~v50 /\ ~u70) => label = "Review Recommended"
      /\ ScoredH > 0 => label \in RiskLabels /\ label \notin ConfidenceLabels

\* five claims, two of them hallucinated: Review Required
C23_Witness ==
  /\ Scored
  /\ ScoredT = 5
  /\ ScoredH = 2
  /\ scoreCall.scoreResult.label = "Review Required - Hallucinations Detected"

\* a list of exactly two claims, one verified and one hallucinated, has
\* been scored
OneVerifiedOneHallucinated ==
  Scored /\ ScoredT = 2 /\ ScoredV = 1 /\ ScoredH = 1

\* C24 as stated: two claims, one verified and one hallucinated, get a
\* label of the Review Required or Caution tier and a score strictly
\* between 0 and 100.
C24_TwoClaimsReviewOrCaution ==
  OneVerifiedOneHallucinated =>
    /\ scoreCall.scoreResult.label
         \in {"Review Required - Hallucinations Detected",
              "Caution - Hallucination Detected"}
    /\ scoreCall.scoreResult.score > 0
    /\ scoreCall.scoreResult.score < 100

\* C24, amended: two claims, one verified and one hallucinated, get the
\* label of the High Risk tier (one of two is 50%) and the score 50.
C24_TwoClaimsHighRisk ==
  OneVerifiedOneHallucinated =>
    /\ scoreCall.scoreResult.label = "High Risk - Multiple Hallucinations"
    /\ scoreCall.scoreResult.score = 50

C24_Witness ==
  /\ OneVerifiedOneHallucinated
  /\ scoreCall.claims[1].status = "hallucinated"
  /\ scoreCall.scoreResult.label = "High Risk - Multiple Hallucinations"
  /\ scoreCall.scoreResult.score = 50

\* ------------------------------------------------------------------------
\* analyze has built what it returns for the claims given
Aggregated == scoreCall.pc = "returned"

\* C25 as stated: every summary names the exact counts of hallucinated,
\* verified and uncertain claims and the total.
C25_SummaryNamesAllCounts ==
  Aggregated =>
    scoreCall.outcome.summary.counts
      = <<scoreCall.outcome.breakdown.hallucinated,
          scoreCall.outcome.breakdown.verified,
          scoreCall.outcome.breakdown.uncertain,
          scoreCall.outcome.breakdown.total>>

\* C25, amended: the summary is built from the breakdown alone and names
\* the counts of its case (all four with a hallucination; the total when
\* all are verified; verified, total and uncertain when some are verified;
\* total and uncertain otherwise), and the four counts of the breakdown
\* can be re-derived from it: no list of claims with another breakdown has
\* the same summary.
C25_BreakdownFromSummary ==
  Aggregated =>
    LET b == scoreCall.outcome.breakdown
        summary == scoreCall.outcome.summary IN
      /\ b.hallucinated > 0
           => summary.counts = <<b.hallucinated, b.verified, b.uncertain, b.total>>
      /\ (b.hallucinated = 0 /\ b.verified = b.total)
           => summary.counts = <<b.total>>
      /\ (b.hallucinated = 0 /\ b.verified # b.total /\ b.verified > 0)
           => summary.counts = <<b.verified, b.total, b.uncertain>>
      /\ (b.hallucinated = 0 /\ b.verified # b.total /\ b.verified = 0)
           => summary.counts = <<b.total, b.uncertain>>
      /\ \A q \in ScoreInputs :
           AnalyzeResult(q).summary = summary => AnalyzeResult(q).breakdown = b

\* one verified and one uncertain claim: "1 of 2 claims verified. 1 claims
\* need additional review."
C25_Witness ==
  /\ Aggregated
  /\ scoreCall.outcome.breakdown
       = [verified |-> 1, uncertain |-> 1, hallucinated |-> 0, total |-> 2]
  /\ scoreCall.outcome.summary.counts = <<1, 2, 1>>

\* ------------------------------------------------------------------------
\* C26: the verdict is binary: whatever a provider replies, verifyClaim
\* returns the status verified or hallucinated, never uncertain.
C26_BinaryVerdict ==
  \A c \in 1..Len(pipes) :
    pipes[c].pc = "done" => pipes[c].result.status \in {"verified", "hallucinated"}

\* ------------------------------------------------------------------------
\* Claims about getEvidence and about the queues of the singleton
\* ------------------------------------------------------------------------

EvidenceReturned == evidenceCall.pc = "returned"

\* where the runs stored when getEvidence was called hold a claim of id
\* `id`: pairs of the run's and the claim's position
HandedOut(id) ==
  {o \in (1..evidenceCall.seen) \X (1..2) :
     /\ o[2] <= Len(db[o[1]].claims)
     /\ db[o[1]].claims[o[2]].id = id}

\* C27: getEvidence(claimId) gives the status and the evidence of the
\* claim that was handed out under this id, whichever run handed it out
\* (so the claims of different runs are not confused), and not_found for
\* an id that no run handed out.
C27_EvidenceOfThatClaim ==
  EvidenceReturned =>
    LET owners == HandedOut(evidenceCall.claimId) IN
      /\ owners = {} => evidenceCall.response.kind = "not_found"
      /\ owners # {} =>
           /\ evidenceCall.response.kind = "found"
           /\ evidenceCall.response.claimId = evidenceCall.claimId
           /\ \A o \in owners :
                /\ evidenceCall.response.status = db[o[1]].claims[o[2]].status
                /\ evidenceCall.response.evidence = db[o[1]].claims[o[2]].evidence

\* C28: for a stored claim getEvidence reports citationCheck.valid = true
\* with the reason "Citation matches supporting source" exactly when the
\* stored status of the claim is verified, and valid = false otherwise.
C28_ValidIffVerified ==
  (EvidenceReturned /\ evidenceCall.response.kind = "found") =>
    /\ evidenceCall.response.valid = (evidenceCall.response.status = "verified")
    /\ evidenceCall.response.status = "verified"
         => evidenceCall.response.reason = "Citation matches supporting source"

\* C29: the singleton's queues are p-queue queues whenever the import of
\* p-queue succeeds, and SimpleQueues only when it fails.
C29_PQueueWhenLoadable ==
  loader.pc = "evaluated" =>
    /\ loader.import = "loaded" => loader.QueueImpl = "p-queue"
    /\ loader.import = "failed" => loader.QueueImpl = "SimpleQueue"

\* C30: for no claims analyze returns the score 50, the label No Claims, a
\* breakdown of four zeros and the summary that no verifiable claims were
\* found; the summary "All N claims verified" is returned only for N >= 1
\* claims that are all verified.
C30_NoClaimsSummary ==
  Aggregated =>
    /\ ScoredT = 0 =>
         /\ scoreCall.outcome.score = 50
         /\ scoreCall.outcome.label = "No Claims"
         /\ scoreCall.outcome.breakdown
              = [verified |-> 0, uncertain |-> 0, hallucinated |-> 0, total |-> 0]
         /\ scoreCall.outcome.summary.text
              = "No verifiable claims found in the text."
    /\ scoreCall.outcome.summary.text
         = "All T claims verified against trusted sources."
         => ScoredT >= 1 /\ ScoredV = ScoredT

====
